---- MODULE Spec2Model ----
(***************************************************************************)
(* tools/avgsize.py of dskDitto: the average size of the files below a     *)
(* directory (calculate_average_file_size), the byte formatter             *)
(* (format_size) and the command-line block that calls both.               *)
(*                                                                         *)
(* Two specifications:                                                     *)
(*   Spec     the command-line run: argument handling, path validation,   *)
(*            the glob('**/*') walk with its per-entry is_file()/stat()   *)
(*            steps, the return value, the printed lines and the except    *)
(*            clauses, over a bounded family of directory trees;           *)
(*   SpecFmt  format_size alone, its loop taken one iteration at a time,  *)
(*            over a bounded family of byte counts.                        *)
(*                                                                         *)
(* Numbers.  The record [num, exp, den] stands for the Python float        *)
(* fl(num / den) * 1024^exp, where fl rounds the quotient of the two       *)
(* integers to the nearest double (ties to even), as total_size /          *)
(* file_count does.  total / count is [total, 0, count]; dividing by       *)
(* 1024.0 only lowers exp (the binary division is exact).  The operators   *)
(* below are exact for 0 <= num < 2^30 and 0 < den < 2^14, and as long as  *)
(* the intermediate products named in their comments stay below 2^31:      *)
(*   - a comparison with a power of 1024 has the outcome it has on the     *)
(*     exact quotient (the quotient differs from a power of 1024 by at     *)
(*     least 1/den of it, far more than the rounding error);               *)
(*   - '.2f' rounds the double: where the exact quotient lies strictly     *)
(*     between two-decimal ties the double lies there too; where it is a   *)
(*     tie, the double is that tie (then ties go to even) or lies above    *)
(*     or below it, as RoundDir computes.                                  *)
(***************************************************************************)
EXTENDS Integers, Sequences, FiniteSets, TLC

(***************************************************************************)
(* Bounds of the model.                                                    *)
(***************************************************************************)
MaxEntries == 3      \* entries below the top-level directory
MaxUnlinks == 1      \* entries removed by another process during the walk
MaxExp     == 5      \* format_size inputs are num * 1024^exp, exp <= MaxExp
MaxDen     == 5      \* ... divided by den, den <= MaxDen

(***************************************************************************)
(* Exact arithmetic on the float model.                                    *)
(***************************************************************************)
RECURSIVE Pow1024(_)
Pow1024(k) == IF k = 0 THEN 1 ELSE 1024 * Pow1024(k - 1)

Float(num, exp, den) == [num |-> num, exp |-> exp, den |-> den]

\* num * 1024^sh >= den, for 0 <= num < 2^31 and 0 < den < 2^31, computed
\* without leaving 32 bits: num * K >= den iff num > (den - 1) div K, and
\* num >= den * K iff num div K >= den.
ScaledGeq(num, sh, den) ==
    IF sh >= 3 THEN num > 0
    ELSE IF sh >= 0 THEN num > (den - 1) \div Pow1024(sh)
    ELSE IF sh <= -4 THEN FALSE
    ELSE (num \div Pow1024(-sh)) >= den

\* x >= 1024^k
GeqPow(x, k) == ScaledGeq(x.num, x.exp - k, x.den)

\* x == 0.0
IsZero(x) == x.num = 0

\* x / 1024.0
Div1024(x) == [x EXCEPT !.exp = @ - 1]

RECURSIVE Pow2Mod(_, _)
Pow2Mod(k, m) == IF k = 0 THEN 1 % m ELSE (2 * Pow2Mod(k - 1, m)) % m

\* floor(log2(num / den)) for num > 0
RECURSIVE Log2Floor(_, _)
Log2Floor(num, den) ==
    IF num >= 2 * den THEN 1 + Log2Floor(num \div 2, den)
    ELSE IF num < den THEN Log2Floor(2 * num, den) - 1
    ELSE 0

\* The sign of fl(num / den) - num / den: the direction in which the float
\* division rounds (0: the quotient is a double).  The quotient is scaled to
\* 53 bits, N = num * 2^s with 2^52 <= N / den < 2^53; N mod 2*den gives the
\* remainder and the parity of the last kept bit.
RoundDir(num, den) ==
    IF num = 0 THEN 0
    ELSE LET s   == 52 - Log2Floor(num, den)
             A   == ((num % (2 * den)) * Pow2Mod(s, 2 * den)) % (2 * den)
             bit == A \div den
             t   == A % den
         IN  IF t = 0 THEN 0
             ELSE IF 2 * t > den \/ (2 * t = den /\ bit = 1) THEN 1
             ELSE -1

\* The float rounded to two decimals as '.2f' does it (the decimal nearest
\* to the double, ties to even): [ip |-> integer part, cents |-> 0..99].
\* P / D is the exact quotient; P and 10 * D stay below 2^31.
Fixed2(x) ==
    LET P   == IF x.exp >= 0 THEN x.num * Pow1024(x.exp) ELSE x.num
        D   == IF x.exp >= 0 THEN x.den ELSE x.den * Pow1024(-x.exp)
        ip  == P \div D
        r   == P % D
        r1  == (r * 10) % D
        h   == 10 * ((r * 10) \div D) + (r1 * 10) \div D
        rr  == (r1 * 10) % D
        dir == RoundDir(x.num, x.den)
        up  == \/ 2 * rr > D
               \/ 2 * rr = D /\ (dir = 1 \/ (dir = 0 /\ h % 2 = 1))
        c   == IF up THEN h + 1 ELSE h
    IN  IF c = 100 THEN [ip |-> ip + 1, cents |-> 0]
        ELSE [ip |-> ip, cents |-> c]

Pad2(n) == IF n < 10 THEN "0" \o ToString(n) ELSE ToString(n)

Pad3(n) == IF n < 10 THEN "00" \o ToString(n)
           ELSE IF n < 100 THEN "0" \o ToString(n) ELSE ToString(n)

\* ',' grouping of a non-negative integer, as the ',' format option does.
RECURSIVE Grouped(_)
Grouped(n) == IF n < 1000 THEN ToString(n)
              ELSE Grouped(n \div 1000) \o "," \o Pad3(n % 1000)

\* f"{x:.2f}"
Format2f(x) ==
    LET f == Fixed2(x) IN ToString(f.ip) \o "." \o Pad2(f.cents)

\* f"{x:,.2f}"
FormatGrouped2f(x) ==
    LET f == Fixed2(x) IN Grouped(f.ip) \o "." \o Pad2(f.cents)

(***************************************************************************)
(* format_size.                                                            *)
(***************************************************************************)
\* Mutation: one more unit after TB.
units_WithPB == <<"B", "KB", "MB", "GB", "TB", "PB">>

units == <<"B", "KB", "MB", "GB", "TB">>

\* Mutation: the cap is one unit short, the loop stops at GB.
LoopCond_StopsAtGB(x, k) == GeqPow(x, 1) /\ k < Len(units) - 2

\* the while condition: size_in_bytes >= 1024 and i < len(units) - 1
LoopCond(x, k) == GeqPow(x, 1) /\ k < Len(units) - 1

\* the return expression: f"{size_in_bytes:.2f} {units[i]}"
Render(x, k) == Format2f(x) \o " " \o units[k + 1]

RECURSIVE FormatLoop(_, _)
FormatLoop(x, k) ==
    IF LoopCond(x, k) THEN FormatLoop(Div1024(x), k + 1) ELSE Render(x, k)

format_size(x) == FormatLoop(x, 0)

(***************************************************************************)
(* The file system the run sees.                                           *)
(*                                                                         *)
(* top is the status of the path handed to the program; fs holds the       *)
(* entries below it when it is a directory.  Entry k has a parent (0 is    *)
(* the top-level directory, otherwise an earlier entry that is a           *)
(* directory), a kind, and:                                                *)
(*   file     size: its st_size;                                           *)
(*   dir      mode: "rwx" listable and searchable, "r--" listable but not  *)
(*            searchable (stat of anything inside is refused), "---"       *)
(*            not listable;                                                *)
(*   symlink  target: "file" (size is then the target's st_size), "dir"    *)
(*            or "broken";                                                 *)
(*   special  a socket, FIFO or device node.                               *)
(* gone is the set of entries another process has removed since the walk   *)
(* listed them.                                                            *)
(***************************************************************************)
Sizes     == {0, 2048}
LinkSizes == {1}
DirModes  == {"rwx", "r--", "---"}

Entry(parent, kind, size, mode, target) ==
    [parent |-> parent, kind |-> kind, size |-> size, mode |-> mode,
     target |-> target]

EntriesAt(p) ==
    {Entry(p, "file", s, "rwx", "none") : s \in Sizes}
      \cup {Entry(p, "dir", 0, m, "none") : m \in DirModes}
      \cup {Entry(p, "symlink", s, "rwx", "file") : s \in LinkSizes}
      \cup {Entry(p, "symlink", 0, "rwx", t) : t \in {"dir", "broken"}}
      \cup {Entry(p, "special", 0, "rwx", "none")}

AllEntries == UNION {EntriesAt(p) : p \in 0..(MaxEntries - 1)}

\* A total order on what an entry is, used only to name the entries.
Rank(x) ==
    CASE x.kind = "file"    -> IF x.size = 0 THEN 1 ELSE 2
      [] x.kind = "dir"     -> IF x.mode = "rwx" THEN 3
                               ELSE IF x.mode = "r--" THEN 4 ELSE 5
      [] x.kind = "symlink" -> IF x.target = "file" THEN 6
                               ELSE IF x.target = "dir" THEN 7 ELSE 8
      [] OTHER              -> 9

\* Entries are numbered breadth-first, the entries of one directory in the
\* order of Rank: every tree has a numbering of this form, so no tree
\* shape is left out.
WellFormed(f, n) ==
    /\ \A k \in 1..n : /\ f[k].parent < k
                       /\ f[k].parent > 0 => f[f[k].parent].kind = "dir"
    /\ \A k \in 1..(n - 1) :
          \/ f[k].parent < f[k + 1].parent
          \/ f[k].parent = f[k + 1].parent /\ Rank(f[k]) <= Rank(f[k + 1])

Trees == UNION {{f \in [1..n -> AllEntries] : WellFormed(f, n)} : n \in 0..MaxEntries}

TopStates ==
    {[status |-> s, mode |-> "rwx"] : s \in {"missing", "notdir", "noaccess"}}
      \cup {[status |-> "dir", mode |-> m] : m \in DirModes}

ScriptName == "avgsize.py"
Cwd        == "/home/user"
ArgVectors == {<<ScriptName>>, <<ScriptName, "data">>}

\* The selectors of glob('**/*') work through the tree depth first.  A frame
\* is a directory '**' has reached, with the subdirectories its '**' listing
\* found and has not entered yet.
Frame(d, S) == [dir |-> d, subs |-> S]

VARIABLES
    argv,              \* sys.argv
    cwdGone,           \* the working directory was removed before the run
    top,               \* status of the target path
    fs,                \* the entries below it
    gone,              \* entries removed during the walk
    unlinks,           \* how many removals have happened
    pc,                \* position of the run
    target_directory,  \* the main block's variable
    total_size,        \* calculate_average_file_size's accumulators
    file_count,
    stack,             \* glob: the frames of the directories being walked,
    phase,             \*   the position in the innermost one,
    pending,           \*   the entries '*' listed there and not yet yielded
    cur,               \* the entry between its is_file() and its stat(), or 0
    average_bytes,     \* the value returned
    exc,               \* the exception raised
    out,               \* the lines printed to standard output
    fin,               \* format_size on its own: the argument,
    size_in_bytes,     \*   the local being divided,
    i,                 \*   the unit index,
    fpc,               \*   the position,
    fout               \*   the string returned

vars == <<argv, cwdGone, top, fs, gone, unlinks, pc, target_directory,
          total_size, file_count, stack, phase, pending, cur, average_bytes,
          exc, out, fin, size_in_bytes, i, fpc, fout>>

walkVars == <<total_size, file_count, stack, phase, pending, cur>>
fsVars   == <<argv, cwdGone, top, fs>>
fmtVars  == <<fin, size_in_bytes, i, fpc, fout>>

Nodes == 1..Len(fs)

NoExc == [type |-> "None", msg |-> ""]
Exc(type, msg) == [type |-> type, msg |-> msg]

Line(tag, text) == [tag |-> tag, text |-> text]

ModeOf(d) == IF d = 0 THEN top.mode ELSE fs[d].mode

RECURSIVE PathOf(_)
PathOf(e) == IF e = 0 THEN target_directory
             ELSE PathOf(fs[e].parent) \o "/e" \o ToString(e)

\* What the kernel answers when the path of entry e is resolved, component
\* by component: each directory on the way must be searchable, then the
\* component must still exist.
RECURSIVE Resolve(_)
Resolve(e) ==
    IF e = 0 THEN "ok"
    ELSE LET r == Resolve(fs[e].parent) IN
         IF r # "ok" THEN r
         ELSE IF ModeOf(fs[e].parent) # "rwx" THEN "EACCES"
         ELSE IF e \in gone THEN "ENOENT"
         ELSE "ok"

OSError(code, e) ==
    IF code = "EACCES"
    THEN Exc("PermissionError",
             "[Errno 13] Permission denied: '" \o PathOf(e) \o "'")
    ELSE Exc("FileNotFoundError",
             "[Errno 2] No such file or directory: '" \o PathOf(e) \o "'")

(***************************************************************************)
(* The calls the program makes on paths.                                   *)
(***************************************************************************)
\* Mutation: is_dir() is tested before exists().
ValidationError_DirCheckFirst(status, path) ==
    CASE status = "noaccess" ->
           Exc("PermissionError",
               "[Errno 13] Permission denied: '" \o path \o "'")
      [] status \in {"missing", "notdir"} ->
           Exc("NotADirectoryError",
               "Error: Path exists but is not a directory: '" \o path \o "'")
      [] OTHER -> NoExc

\* Lines 27-30 on the target path: the exception validation raises, or NoExc.
\* Path.exists() lets through every OSError but ENOENT, ENOTDIR, EBADF and
\* ELOOP, so a path below an unsearchable directory raises PermissionError.
ValidationError(status, path) ==
    CASE status = "noaccess" ->
           Exc("PermissionError",
               "[Errno 13] Permission denied: '" \o path \o "'")
      [] status = "missing" ->
           Exc("FileNotFoundError",
               "Error: Directory not found at '" \o path \o "'")
      [] status = "notdir" ->
           Exc("NotADirectoryError",
               "Error: Path exists but is not a directory: '" \o path \o "'")
      [] OTHER -> NoExc

Children(d) == {e \in Nodes : fs[e].parent = d /\ e \notin gone}

\* '**' descends into directories only, and never through a symbolic link
\* (entry.is_dir(follow_symlinks=False)).
SubDirs(d) == {e \in Children(d) : fs[e].kind = "dir"}

\* e and every directory above it are still there
RECURSIVE Present(_)
Present(e) == IF e = 0 THEN TRUE
              ELSE e \notin gone /\ Present(fs[e].parent)

\* os.scandir(d) inside glob: "ok", or the errno it fails with.
ScanOutcome(d) ==
    LET r == Resolve(d) IN
    IF r # "ok" THEN r
    ELSE IF ModeOf(d) = "---" THEN "EACCES"
    ELSE "ok"

\* item.is_file(): stat following symbolic links; ENOENT (a removed entry,
\* a broken link) is answered False, EACCES is raised.
IsFileOutcome(e) ==
    LET r == Resolve(e) IN
    IF r = "EACCES" THEN "raise"
    ELSE IF r = "ENOENT" THEN "false"
    ELSE IF fs[e].kind = "file" THEN "true"
    ELSE IF fs[e].kind = "symlink" /\ fs[e].target = "file" THEN "true"
    ELSE "false"

\* lines 43-48
Average(total, count) ==
    IF count = 0 THEN Float(0, 0, 1) ELSE Float(total, 0, count)

Rule == "--------------------------------------------------"

\* lines 63-82: what the main block prints for a returned average
ReportLines(path, avg) ==
    IF IsZero(avg)
    THEN <<Line("no_files", "Directory '" \o path \o "' contains no files.")>>
    ELSE <<Line("rule", Rule),
           Line("results", "Results for directory: " \o path),
           Line("raw", "Average File Size (Bytes): "
                         \o FormatGrouped2f(avg) \o " B"),
           Line("formatted", "Average File Size (Formatted): "
                               \o format_size(avg)),
           Line("rule", Rule)>>

\* Mutation: no catch-all clause; only the two named exceptions are caught.
Catch_NoCatchAll(e) ==
    IF e.type \in {"FileNotFoundError", "NotADirectoryError"}
    THEN <<Line("failed", "\nExecution failed: " \o e.msg)>>
    ELSE <<>>

\* lines 84-87: what the except clauses print for exception e
Catch(e) ==
    IF e.type \in {"FileNotFoundError", "NotADirectoryError"}
    THEN <<Line("failed", "\nExecution failed: " \o e.msg)>>
    ELSE <<Line("unexpected", "\nAn unexpected error occurred: " \o e.msg)>>

\* The shape of the state.
TypeOK ==
    /\ argv \in ArgVectors
    /\ cwdGone \in BOOLEAN
    /\ top \in TopStates
    /\ fs \in Trees
    /\ gone \subseteq Nodes
    /\ unlinks \in 0..MaxUnlinks
    /\ pc \in {"start", "call", "walk", "returned", "raised", "done",
              "crashed", "idle"}
    /\ target_directory \in {"", Cwd} \cup {a[2] : a \in {b \in ArgVectors : Len(b) > 1}}
    /\ total_size \in Nat
    /\ file_count \in 0..Len(fs)
    /\ stack \in Seq({Frame(d, S) : d \in Nodes \cup {0}, S \in SUBSET Nodes})
    /\ phase \in {"none", "star", "items", "subs"}
    /\ pending \subseteq Nodes
    /\ cur \in Nodes \cup {0}
    /\ average_bytes.num \in Nat /\ average_bytes.exp = 0
    /\ average_bytes.den \in 1..(Len(fs) + 1)
    /\ exc.type \in {"None", "FileNotFoundError", "NotADirectoryError",
                     "PermissionError"}
    /\ \A k \in DOMAIN out :
          out[k].tag \in {"notice", "no_files", "rule", "results", "raw",
                          "formatted", "failed", "unexpected"}
    /\ fin.num \in Nat /\ fin.den \in 1..MaxDen /\ fin.exp \in 0..MaxExp
    /\ size_in_bytes.num = fin.num /\ size_in_bytes.den = fin.den
    /\ i \in 0..(Len(units) - 1)
    /\ fpc \in {"idle", "loop", "done"}

(***************************************************************************)
(* The command-line run.                                                   *)
(***************************************************************************)
\* The working directory matters only to a run without an argument, whose
\* target it is; a removed one has no entries.
Init ==
    /\ argv \in ArgVectors
    /\ cwdGone \in BOOLEAN
    /\ cwdGone => Len(argv) = 1
    /\ top \in TopStates
    /\ cwdGone => top.status = "missing"
    /\ fs \in Trees
    /\ top.status # "dir" => fs = <<>>
    /\ gone = {}
    /\ unlinks = 0
    /\ pc = "start"
    /\ target_directory = ""
    /\ total_size = 0
    /\ file_count = 0
    /\ stack = <<>>
    /\ phase = "none"
    /\ pending = {}
    /\ cur = 0
    /\ average_bytes = Float(0, 0, 1)
    /\ exc = NoExc
    /\ out = <<>>
    /\ fin = Float(0, 0, 1)
    /\ size_in_bytes = Float(0, 0, 1)
    /\ i = 0
    /\ fpc = "idle"
    /\ fout = ""

\* lines 52-58.  os.getcwd() on line 57 stands before the try statement: in
\* a working directory that was removed it raises FileNotFoundError, which
\* nothing catches; the interpreter ends with a traceback on standard error
\* and status 1, nothing printed.
ParseArgs ==
    /\ pc = "start"
    /\ IF Len(argv) > 1
       THEN /\ target_directory' = argv[2]
            /\ pc' = "call"
            /\ UNCHANGED <<out, exc>>
       ELSE IF cwdGone
       THEN /\ exc' = Exc("FileNotFoundError",
                          "[Errno 2] No such file or directory")
            /\ pc' = "crashed"
            /\ UNCHANGED <<target_directory, out>>
       ELSE /\ target_directory' = Cwd
            /\ out' = Append(out,
                   Line("notice",
                        "No directory specified. Using current directory: "
                          \o Cwd \o "\n"))
            /\ pc' = "call"
            /\ exc' = exc
    /\ UNCHANGED <<fsVars, gone, unlinks, walkVars, average_bytes, fmtVars>>

\* lines 24-37: validation, the accumulators, the glob generator created
Validate ==
    /\ pc = "call"
    /\ LET e == ValidationError(top.status, target_directory) IN
       IF e # NoExc
       THEN /\ exc' = e
            /\ pc' = "raised"
            /\ UNCHANGED walkVars
       ELSE /\ total_size' = 0
            /\ file_count' = 0
            /\ stack' = <<Frame(0, {})>>
            /\ phase' = "star"
            /\ pc' = "walk"
            /\ UNCHANGED <<pending, cur, exc>>
    /\ UNCHANGED <<fsVars, gone, unlinks, target_directory, average_bytes,
                   out, fmtVars>>

\* the directory glob is working in
Here == stack[Len(stack)].dir

\* the innermost frame replaced
SetTop(f) == [stack EXCEPT ![Len(stack)] = f]

\* '**' goes back up through the directories it has no subdirectory left
\* to enter
RECURSIVE Unwind(_)
Unwind(st) ==
    IF Len(st) > 1 /\ st[Len(st)].subs = {}
    THEN Unwind(SubSeq(st, 1, Len(st) - 1))
    ELSE st

\* line 37: '**' has reached directory d, the top-level one or the next
\* subdirectory its listing found (the entry's type came with the listing;
\* the directory is not looked at again before it is listed), and '*' lists
\* it: its entries are what the loop is handed next.  A listing that is
\* refused yields nothing (glob catches PermissionError); a directory that
\* has vanished raises.
ListStar(d) ==
    /\ pc = "walk"
    /\ \/ phase = "star" /\ d = Here
       \/ phase = "subs" /\ d \in stack[Len(stack)].subs
    /\ LET st == IF phase = "star" THEN stack
                 ELSE Append(SetTop(Frame(Here, stack[Len(stack)].subs \ {d})),
                             Frame(d, {}))
           r  == ScanOutcome(d)
       IN  CASE r = "ok" ->
                  /\ stack' = st
                  /\ pending' = Children(d)
                  /\ phase' = "items"
                  /\ UNCHANGED <<exc, pc>>
             [] r = "EACCES" ->
                  /\ stack' = st
                  /\ phase' = "items"
                  /\ UNCHANGED <<pending, exc, pc>>
             [] OTHER ->
                  /\ exc' = OSError(r, d)
                  /\ pc' = "raised"
                  /\ UNCHANGED <<stack, phase, pending>>
    /\ UNCHANGED <<fsVars, gone, unlinks, target_directory, total_size,
                   file_count, cur, average_bytes, out, fmtVars>>

\* line 37: the loop has consumed the entries of the directory, and '**'
\* lists it a second time to find the subdirectories it descends into:
\* those that are there now.  glob is a generator, so this listing happens
\* only when the loop asks for the item after the last entry.
ListSubdirs ==
    /\ pc = "walk"
    /\ phase = "items"
    /\ pending = {}
    /\ cur = 0
    /\ LET r == ScanOutcome(Here) IN
       CASE r = "ok" ->
              /\ stack' = Unwind(SetTop(Frame(Here, SubDirs(Here))))
              /\ phase' = "subs"
              /\ UNCHANGED <<exc, pc>>
         [] r = "EACCES" ->
              /\ stack' = Unwind(stack)
              /\ phase' = "subs"
              /\ UNCHANGED <<exc, pc>>
         [] OTHER ->
              /\ exc' = OSError(r, Here)
              /\ pc' = "raised"
              /\ UNCHANGED <<stack, phase>>
    /\ UNCHANGED <<fsVars, gone, unlinks, target_directory, total_size,
                   file_count, pending, cur, average_bytes, out, fmtVars>>

\* lines 37-38: the loop takes the next item and tests item.is_file()
IsFile(e) ==
    /\ pc = "walk"
    /\ cur = 0
    /\ e \in pending
    /\ LET r == IsFileOutcome(e) IN
       CASE r = "true" ->
              /\ pending' = pending \ {e}
              /\ cur' = e
              /\ UNCHANGED <<exc, pc>>
         [] r = "false" ->
              /\ pending' = pending \ {e}
              /\ UNCHANGED <<cur, exc, pc>>
         [] OTHER ->
              /\ exc' = OSError("EACCES", e)
              /\ pc' = "raised"
              /\ UNCHANGED <<pending, cur>>
    /\ UNCHANGED <<fsVars, gone, unlinks, target_directory, total_size,
                   file_count, stack, phase, average_bytes, out, fmtVars>>

\* lines 40-41: item.stat().st_size is added, the count advanced
Stat ==
    /\ pc = "walk"
    /\ cur # 0
    /\ LET r == Resolve(cur) IN
       IF r = "ok"
       THEN /\ total_size' = total_size + fs[cur].size
            /\ file_count' = file_count + 1
            /\ cur' = 0
            /\ UNCHANGED <<exc, pc>>
       ELSE /\ exc' = OSError(r, cur)
            /\ pc' = "raised"
            /\ UNCHANGED <<total_size, file_count, cur>>
    /\ UNCHANGED <<fsVars, gone, unlinks, target_directory, stack, phase,
                   pending, average_bytes, out, fmtVars>>

\* lines 43-48: the generator is exhausted
Return ==
    /\ pc = "walk"
    /\ phase = "subs"
    /\ Len(stack) = 1
    /\ stack[1].subs = {}
    /\ average_bytes' = Average(total_size, file_count)
    /\ pc' = "returned"
    /\ UNCHANGED <<fsVars, gone, unlinks, target_directory, walkVars, exc,
                   out, fmtVars>>

\* lines 61-82
Report ==
    /\ pc = "returned"
    /\ out' = out \o ReportLines(target_directory, average_bytes)
    /\ pc' = "done"
    /\ UNCHANGED <<fsVars, gone, unlinks, target_directory, walkVars,
                   average_bytes, exc, fmtVars>>

\* lines 84-87
Handle ==
    /\ pc = "raised"
    /\ out' = out \o Catch(exc)
    /\ pc' = "done"
    /\ UNCHANGED <<fsVars, gone, unlinks, target_directory, walkVars,
                   average_bytes, exc, fmtVars>>

\* The entries the walk has listed and is not through with: those the loop
\* has yet to test or measure, and the directories '*' has listed that '**'
\* has yet to list, to enter or to leave.
InPlay ==
    pending \cup (IF cur = 0 THEN {} ELSE {cur})
      \cup {d \in Nodes :
              /\ fs[d].kind = "dir"
              /\ \/ \E k \in DOMAIN stack :
                       d = stack[k].dir \/ d \in stack[k].subs
                 \/ phase = "items" /\ fs[d].parent = Here}

\* Another process removes an entry the walk has listed and is not through
\* with (a directory goes with everything below it).  The removal of an
\* entry not listed yet is the walk of the tree without it.
Unlink(e) ==
    /\ pc = "walk"
    /\ unlinks < MaxUnlinks
    /\ e \in InPlay
    /\ Present(e)
    /\ gone' = gone \cup {e}
    /\ unlinks' = unlinks + 1
    /\ UNCHANGED <<fsVars, pc, target_directory, walkVars, average_bytes,
                   exc, out, fmtVars>>

Next ==
    \/ ParseArgs
    \/ Validate
    \/ \E d \in Nodes \cup {0} : ListStar(d)
    \/ \E e \in pending : IsFile(e)
    \/ Stat
    \/ ListSubdirs
    \/ Return
    \/ Report
    \/ Handle
    \/ \E e \in Nodes : Unlink(e)

Spec == Init /\ [][Next]_vars

(***************************************************************************)
(* format_size on its own, one loop iteration per step.                    *)
(***************************************************************************)
FmtNums == {0, 1, 1023, 1024, 1025, 1536}

\* totals whose quotients reach the MB range, or lie on a two-decimal tie
\* that no double equals (5504 / 5 / 1024 = 1.075)
FmtTotals == {5504, 1048576, 5000000}

\* the byte counts n * 1024^e / d (zero written once, as 0 * 1024^0 / d)
FmtInputs ==
    {x \in {Float(n, e, d) : n \in FmtNums, e \in 0..MaxExp, d \in 1..MaxDen} :
       x.num = 0 => x.exp = 0}
      \cup {Float(n, 0, d) : n \in FmtTotals, d \in 1..MaxDen}

InitFmt ==
    /\ argv = <<ScriptName>>
    /\ cwdGone = FALSE
    /\ top = [status |-> "missing", mode |-> "rwx"]
    /\ fs = <<>>
    /\ gone = {}
    /\ unlinks = 0
    /\ pc = "idle"
    /\ target_directory = ""
    /\ total_size = 0
    /\ file_count = 0
    /\ stack = <<>>
    /\ phase = "none"
    /\ pending = {}
    /\ cur = 0
    /\ average_bytes = Float(0, 0, 1)
    /\ exc = NoExc
    /\ out = <<>>
    /\ fin \in FmtInputs
    /\ size_in_bytes = fin
    /\ i = 0
    /\ fpc = "loop"
    /\ fout = ""

\* lines 71-73: one iteration of the while loop
FmtIterate ==
    /\ fpc = "loop"
    /\ LoopCond(size_in_bytes, i)
    /\ size_in_bytes' = Div1024(size_in_bytes)
    /\ i' = i + 1
    /\ UNCHANGED <<fin, fpc, fout>>
    /\ UNCHANGED <<fsVars, gone, unlinks, pc, target_directory, walkVars,
                   average_bytes, exc, out>>

\* line 74: the loop has ended
FmtReturn ==
    /\ fpc = "loop"
    /\ ~LoopCond(size_in_bytes, i)
    /\ fout' = Render(size_in_bytes, i)
    /\ fpc' = "done"
    /\ UNCHANGED <<fin, size_in_bytes, i>>
    /\ UNCHANGED <<fsVars, gone, unlinks, pc, target_directory, walkVars,
                   average_bytes, exc, out>>

NextFmt == FmtIterate \/ FmtReturn

SpecFmt == InitFmt /\ [][NextFmt]_vars

(***************************************************************************)
(* Vocabulary of the properties.                                           *)
(***************************************************************************)
RegularFiles == {e \in Nodes : fs[e].kind = "file"}

RECURSIVE SumSizes(_)
SumSizes(S) ==
    IF S = {} THEN 0
    ELSE LET e == CHOOSE x \in S : TRUE IN fs[e].size + SumSizes(S \ {e})

\* the path the user gave: the argument, or the working directory
GivenPath == IF Len(argv) > 1 THEN argv[2] ELSE Cwd

\* the averaging call has been made
CallStarted == pc \notin {"start", "call", "crashed"}

\* the averaging call has ended, by return or by exception
CallEnded == pc \in {"returned", "raised", "done"}

\* every directory can be listed and searched and nothing is removed
\* while the walk runs
Undisturbed ==
    /\ top.mode = "rwx"
    /\ \A e \in Nodes : fs[e].kind = "dir" => fs[e].mode = "rwx"
    /\ unlinks = 0

\* the tree holds directories and regular files only
PlainTree == \A e \in Nodes : fs[e].kind \in {"file", "dir"}

\* what was printed after the working-directory notice, if any
Body == IF Len(argv) > 1 \/ out = <<>> THEN out ELSE Tail(out)

Tags(lines) == [k \in DOMAIN lines |-> lines[k].tag]

(***************************************************************************)
(* C1.  For a directory holding N >= 1 regular files, the call returns     *)
(* the sum of their sizes divided by N.  Stated for trees in which every   *)
(* directory is listable and searchable and nothing is removed during the  *)
(* walk; it fails there already, because a symbolic link to a regular      *)
(* file is counted as one more file (see C6).                              *)
(***************************************************************************)
C1_AverageOverRegularFiles ==
    (top.status = "dir" /\ Undisturbed /\ CallEnded /\ RegularFiles # {})
      => /\ exc = NoExc
         /\ average_bytes.exp = 0
         /\ average_bytes.num * Cardinality(RegularFiles)
              = SumSizes(RegularFiles) * average_bytes.den

\* The same on trees of directories and regular files only: this one holds.
C1_OnPlainTrees ==
    (top.status = "dir" /\ Undisturbed /\ PlainTree /\ CallEnded
       /\ RegularFiles # {})
      => /\ exc = NoExc
         /\ average_bytes.exp = 0
         /\ average_bytes.num * Cardinality(RegularFiles)
              = SumSizes(RegularFiles) * average_bytes.den

(***************************************************************************)
(* C2.  When the tree holds no regular file at any depth, the call         *)
(* returns 0.0 and raises nothing.  Same setting as C1; it fails when the  *)
(* tree holds a symbolic link to a regular file.                           *)
(***************************************************************************)
C2_NoRegularFilesGivesZero ==
    (top.status = "dir" /\ Undisturbed /\ CallEnded /\ RegularFiles = {})
      => (exc = NoExc /\ IsZero(average_bytes))

\* The same on trees of directories only: this one holds.
C2_OnDirectoriesOnly ==
    (top.status = "dir" /\ Undisturbed /\ PlainTree /\ CallEnded
       /\ RegularFiles = {})
      => (exc = NoExc /\ IsZero(average_bytes))

(***************************************************************************)
(* C3.  Validation decides by the status of the path, before anything is   *)
(* walked: a missing path raises FileNotFoundError whose message embeds    *)
(* the given path, an existing non-directory raises NotADirectoryError,    *)
(* in both cases with nothing listed, visited or accumulated; for an       *)
(* existing directory validation raises neither and the walk starts.       *)
(***************************************************************************)
NothingWalked ==
    /\ stack = <<>> /\ pending = {} /\ cur = 0
    /\ total_size = 0 /\ file_count = 0

NotFoundMsg == "Error: Directory not found at '" \o GivenPath \o "'"
NotDirMsg   == "Error: Path exists but is not a directory: '" \o GivenPath \o "'"

C3_ValidationByStatus ==
    /\ (top.status = "missing" /\ CallStarted)
         => /\ pc \in {"raised", "done"}
            /\ exc = Exc("FileNotFoundError", NotFoundMsg)
            /\ NothingWalked
    /\ (top.status = "notdir" /\ CallStarted)
         => /\ pc \in {"raised", "done"}
            /\ exc = Exc("NotADirectoryError", NotDirMsg)
            /\ NothingWalked
    /\ (top.status = "dir" /\ CallStarted)
         => /\ exc.type # "NotADirectoryError"
            /\ exc.msg \notin {NotFoundMsg, NotDirMsg}
            /\ (pc = "walk" \/ CallEnded)
    /\ (top.status = "dir" /\ pc = "raised") => ~NothingWalked

C3_Witness ==
    /\ pc = "raised"
    /\ top.status = "missing"
    /\ Len(argv) > 1
    /\ exc.msg = "Error: Directory not found at 'data'"

(***************************************************************************)
(* C4.  A top-level directory that cannot be read makes the call fail      *)
(* with PermissionError.  It does not: glob swallows the refusal and the   *)
(* call returns 0.0.                                                       *)
(***************************************************************************)
C4_UnreadableTopRaises ==
    (top.status = "dir" /\ top.mode = "---" /\ CallEnded)
      => exc.type = "PermissionError"

(***************************************************************************)
(* C5.  An entry below the top-level directory that cannot be stat'ed or   *)
(* listed, or that vanishes during the walk, is skipped: no error from     *)
(* such an entry reaches the caller.  It fails: is_file() raises           *)
(* PermissionError inside an unsearchable directory, stat() raises         *)
(* FileNotFoundError for a file removed after is_file(), and glob raises   *)
(* FileNotFoundError for a directory removed after '**' found it and       *)
(* before '*' lists it.                                                    *)
(***************************************************************************)
C5_EntryErrorsAreSkipped ==
    (top.status = "dir" /\ top.mode = "rwx" /\ CallEnded) => exc = NoExc

\* The part of C5 that holds: a directory whose listing is refused is skipped.
C5_UnlistableDirectorySkipped ==
    (top.status = "dir" /\ top.mode = "rwx" /\ unlinks = 0 /\ CallEnded
       /\ \A e \in Nodes : fs[e].kind = "dir" => fs[e].mode # "r--")
      => exc = NoExc

\* Also this part: an entry that is gone when is_file() looks at it, and a
\* directory that is gone when its parent is listed for '**', are skipped.
\* The removals that raise are those seen by stat() or by a listing of the
\* removed directory itself.
C5_VanishedEntryRaises ==
    [][(pc = "walk" /\ pc' = "raised" /\ exc'.type = "FileNotFoundError")
         => \/ cur # 0 /\ ~Present(cur)
            \/ cur = 0 /\ \E d \in Nodes :
                  /\ ~Present(d)
                  /\ d = Here \/ d \in stack[Len(stack)].subs]_vars

(***************************************************************************)
(* C6.  Only regular files ever add to total_size and file_count: every    *)
(* step that changes either accumulator is the stat of an entry whose      *)
(* kind is regular file.  It fails for a symbolic link to a regular file,  *)
(* which is_file() accepts and stat() measures through the link.           *)
(***************************************************************************)
C6_OnlyRegularFilesCounted ==
    [][(total_size' # total_size \/ file_count' # file_count)
         => (cur \in Nodes /\ fs[cur].kind = "file")]_vars

\* What the code does count: regular files and links to regular files.
C6_FilesAndLinksToFilesCounted ==
    [][(total_size' # total_size \/ file_count' # file_count)
         => /\ cur \in Nodes
            /\ \/ fs[cur].kind = "file"
               \/ fs[cur].kind = "symlink" /\ fs[cur].target = "file"
            /\ total_size' = total_size + fs[cur].size
            /\ file_count' = file_count + 1]_vars

(***************************************************************************)
(* C7.  format_size: the unit index i is the number of divisions by 1024   *)
(* performed and stays within 0..4; a division happens only while the      *)
(* value is at least 1024; at the end the scaled value v / 1024^i is       *)
(* below 1024 whenever i < 4 and at least 1 whenever i > 0; a value of     *)
(* 1024 TB or more ends at i = 4, and units[i] exists.                     *)
(***************************************************************************)
C7_UnitSelection ==
    fpc \in {"loop", "done"} =>
      /\ i \in 0..4
      /\ size_in_bytes = [fin EXCEPT !.exp = @ - i]
      /\ \A j \in 1..i : GeqPow(fin, j)
      /\ fpc = "done" =>
           /\ i < 4 => ~GeqPow(size_in_bytes, 1)
           /\ i > 0 => GeqPow(size_in_bytes, 0)
           /\ GeqPow(fin, 5) => i = 4
           /\ (i + 1) \in DOMAIN units

C7_Witness ==
    /\ fpc = "done"
    /\ GeqPow(fin, 5)
    /\ i = 4
    /\ GeqPow(size_in_bytes, 1)

(***************************************************************************)
(* C8.  Reference values of format_size.  As claimed: format(0) is         *)
(* "0.00 B", format(1023) "1023.00 B", format(1024) "1.00 KB",             *)
(* format(1024*1024) "1.00 MB" and format(1024^5) "1.00 TB".               *)
(***************************************************************************)
IsBytes(x, n, e) ==
    \/ x = Float(n, e, 1)
    \/ n = 1 /\ e > 0 /\ x = Float(1024, e - 1, 1)
    \/ n = 1 /\ e = 2 /\ x = Float(1048576, 0, 1)

C8_ReferenceValuesAsClaimed ==
    fpc = "done" =>
      /\ fin.num = 0 => fout = "0.00 B"
      /\ IsBytes(fin, 1023, 0) => fout = "1023.00 B"
      /\ IsBytes(fin, 1, 1) => fout = "1.00 KB"
      /\ IsBytes(fin, 1, 2) => fout = "1.00 MB"
      /\ IsBytes(fin, 1, 5) => fout = "1.00 TB"

(***************************************************************************)
(* C8, amended.  The first four values as claimed; 1024^5 bytes are        *)
(* 1024 TB, so format(1024^5) is "1024.00 TB" (still capped at TB), and    *)
(* "1.00 TB" is format(1024^4).                                            *)
(***************************************************************************)
C8_ReferenceValues ==
    fpc = "done" =>
      /\ fin.num = 0 => fout = "0.00 B"
      /\ IsBytes(fin, 1023, 0) => fout = "1023.00 B"
      /\ IsBytes(fin, 1, 1) => fout = "1.00 KB"
      /\ IsBytes(fin, 1, 2) => fout = "1.00 MB"
      /\ IsBytes(fin, 1, 5) => fout = "1024.00 TB"
      /\ IsBytes(fin, 1, 4) => fout = "1.00 TB"

\* Further values, in the KB and MB ranges.  5504 / 5 / 1024 is the tie
\* 1.075 as a fraction; the double is just below it and prints as 1.07.
C8_RoundedValues ==
    fpc = "done" =>
      /\ fin = Float(5504, 0, 5) => fout = "1.07 KB"
      /\ fin = Float(5000000, 0, 3) => fout = "1.59 MB"
      /\ fin = Float(1048576, 0, 5) => fout = "204.80 KB"
      /\ fin = Float(1, 0, 4) => fout = "0.25 B"
      /\ fin = Float(1025, 1, 2) => fout = "512.50 KB"

C8_Witness ==
    /\ fpc = "done"
    /\ fin = Float(1, 5, 1)
    /\ i = 4
    /\ fout = "1024.00 TB"

(***************************************************************************)
(* C9.  The "contains no files" line is printed exactly when the           *)
(* directory holds no regular file at any depth; a directory holding at    *)
(* least one regular file, of whatever size, gets the results block.       *)
(* Stated for undisturbed trees of directories and regular files; it       *)
(* fails when every file is empty: the average is then 0.0 and the main    *)
(* block takes 0.0 to mean that there are no files.                        *)
(***************************************************************************)
ResultsBlock == <<"rule", "results", "raw", "formatted", "rule">>

C9_NoFilesLineIffNoFiles ==
    (pc = "done" /\ top.status = "dir" /\ Undisturbed /\ PlainTree)
      => /\ RegularFiles = {} => Tags(Body) = <<"no_files">>
         /\ RegularFiles # {} => Tags(Body) = ResultsBlock

\* What the code does: the line is chosen by the average, not by the count.
C9_NoFilesLineIffZeroAverage ==
    (pc = "done" /\ exc = NoExc)
      => /\ IsZero(average_bytes) => Tags(Body) = <<"no_files">>
         /\ ~IsZero(average_bytes) => Tags(Body) = ResultsBlock

(***************************************************************************)
(* C10.  Every exception raised by the averaging call, in validation or    *)
(* during the walk, is caught by the main block: the run ends, and what    *)
(* it printed (after the working-directory notice, if any) is exactly one  *)
(* line carrying the exception's message, "Execution failed: " for         *)
(* FileNotFoundError and NotADirectoryError, "An unexpected error          *)
(* occurred: " for PermissionError and anything else; no results block     *)
(* and no "no files" line.  The one exception that leaves the main block   *)
(* is not a failure of the call: os.getcwd() on line 57 raises before the  *)
(* call is made, with nothing printed and nothing walked.                  *)
(***************************************************************************)
C10_FailuresContained ==
    /\ pc = "raised" => (exc # NoExc /\ ENABLED Handle /\ Body = <<>>)
    /\ (pc = "done" /\ exc # NoExc) =>
         /\ Len(Body) = 1
         /\ IF exc.type \in {"FileNotFoundError", "NotADirectoryError"}
            THEN Body[1] = Line("failed", "\nExecution failed: " \o exc.msg)
            ELSE Body[1] = Line("unexpected",
                                "\nAn unexpected error occurred: " \o exc.msg)
    /\ (pc = "done" /\ exc = NoExc) => Len(Body) \in {1, 5}
    /\ pc = "crashed" =>
         /\ Len(argv) = 1 /\ cwdGone
         /\ exc.type = "FileNotFoundError"
         /\ out = <<>> /\ NothingWalked

C10_Witness ==
    /\ pc = "done"
    /\ exc.type = "PermissionError"
    /\ top.status = "dir"
    /\ Len(Body) = 1
    /\ Body[1].tag = "unexpected"

====
